---- MODULE Spec2Model ----
(***************************************************************************)
(* Queue simulation: the admission / routing / dispatch engine.            *)
(*                                                                         *)
(* Clients create requests and route them to a bounded priority queue or   *)
(* directly to a server (client.py); queues admit and dispatch             *)
(* (request_queue.py); servers hold one request and notify their queue on  *)
(* release (server.py); each request reacts to the position checks of its  *)
(* movement animation (request.py); the view adds and removes lanes        *)
(* (view.py).  Every handler runs to completion on the Qt event loop, so   *)
(* each handler is one atomic action.                                      *)
(***************************************************************************)
EXTENDS Integers, Sequences, FiniteSets, TLC

\* ---------------------------------------------------------------- bounds
\* Number of requests the clients create in one run.
MaxRequests == 4
\* Number of rows (server + queue) the view creates; view.py creates three.
MaxQueueNum == 2
\* Capacity of every queue; view.py uses 5.
queue_capacity == 2
\* Number of times one request's processing is started, at most.
MaxProcessing == 2

\* ------------------------------------------------------------- constants
None == 0
High == 1
Normal == 2

Lanes == 1..MaxQueueNum
RequestIds == 1..MaxRequests
Priorities == {High, Normal}

VARIABLES
    requests,         \* sequence of Request objects, in creation order
    queue,            \* queue[l]: RequestQueue.queue, entries <<priority, request>>
    can_bypass,       \* can_bypass[l]: RequestQueue.can_bypass
    current_request,  \* current_request[l]: Server.current_request (None = idle)
    queue_num,        \* View._queue_num: queues 1..queue_num are in the scene
    server_center_in_scene,  \* whether server_center is an item of the scene
    sent_without_queue  \* history: some request was routed straight to a
                        \* server because the scene held no queue

vars == <<requests, queue, can_bypass, current_request, queue_num,
          server_center_in_scene, sent_without_queue>>
\* The part of the state that only the view changes.
topology == <<queue_num, server_center_in_scene>>

\* ------------------------------------------------------------- topology
\* View._create_row: each row's server and queue are paired with each other.
paired_server(q) == q
paired_queue(s) == s

\* Queues that are items of the scene (View.add_queue / remove_queue).
SceneQueues == 1..queue_num
\* Servers that are items of the scene: server_center once it was added
\* (View._add_initial_items), the others together with their queue.
SceneServers ==
    (IF server_center_in_scene THEN {1} ELSE {}) \cup (2..queue_num)

\* ------------------------------------------------------------- Request
\* Request.__init__
NewRequest(p) ==
    [ priority           |-> p,
      target_server      |-> None,
      target_queue       |-> None,
      move_anim          |-> "none",
      has_checked_queue  |-> FALSE,
      has_checked_server |-> FALSE,
      has_entered_server |-> FALSE,
      has_entered_center |-> FALSE,
      position           |-> 0,
      end_x_in_queue     |-> 0,
      processing         |-> 0,
      finished           |-> 0,
      dropped            |-> 0,
      blocking_obj       |-> "none" ]

\* Request.__lt__ : always False, so that two requests never order a tuple.
Request_lt_always(a, b) == TRUE
Request_lt(a, b) == FALSE

\* Python's tuple comparison of two entries (priority, request): the first
\* differing component decides; equal tuples are not less.
EntryLess(x, y) ==
    IF x[1] # y[1] THEN x[1] < y[1]
    ELSE IF x[2] = y[2] THEN FALSE
    ELSE Request_lt(x[2], y[2])

\* bisect.bisect_right(a, x): binary search, 0-based insertion index.
RECURSIVE bisect_loop(_, _, _, _)
bisect_loop(a, x, lo, hi) ==
    IF lo < hi
    THEN LET mid == (lo + hi) \div 2
         IN  IF EntryLess(x, a[mid + 1])
             THEN bisect_loop(a, x, lo, mid)
             ELSE bisect_loop(a, x, mid + 1, hi)
    ELSE lo

bisect_append(a, x) == Len(a)
bisect_left(a, x) == Cardinality({ i \in 1..Len(a) : a[i][1] < x[1] })
bisect_right(a, x) == bisect_loop(a, x, 0, Len(a))

\* list.insert(index, entry), index 0-based
list_insert_front(a, index, entry) == <<entry>> \o a
list_insert(a, index, entry) ==
    SubSeq(a, 1, index) \o <<entry>> \o SubSeq(a, index + 1, Len(a))

\* Requests held by a list of entries.
EntryRequests(a) == { a[i][2] : i \in 1..Len(a) }

\* Request._move_to: replaces the movement animation by a new running one.
move_to(req) == [req EXCEPT !.move_anim = "running"]

\* Request.move_forward / move_backward: one slot towards / away from the
\* server.  end_x_in_queue is kept as a slot number (1 = front).
move_forward(req) == move_to([req EXCEPT !.end_x_in_queue = @ - 1])
move_backward_wrong_sign(req) ==
    move_to([req EXCEPT !.end_x_in_queue = @ - 1])
move_backward(req) == move_to([req EXCEPT !.end_x_in_queue = @ + 1])

\* Request.move_to_queue, after queue.accept_request returned `position`.
move_to_queue(req, q, position) ==
    move_to([req EXCEPT !.target_queue = q,
                        !.position = position,
                        !.end_x_in_queue = position])

\* Request.move_to_server: the request's own fields.
move_to_server(req, s) == move_to([req EXCEPT !.target_server = s])

\* Request.move_to_server: `server.paired_queue.can_bypass = False`.
bypass_kept_by_move(cb, s) == cb
bypass_toggled_by_move(cb, s) == [cb EXCEPT ![paired_queue(s)] = ~@]
bypass_after_move(cb, s) == [cb EXCEPT ![paired_queue(s)] = FALSE]

\* -------------------------------------------------------- RequestQueue
\* RequestQueue.accept_request on the entries `a` of a queue of the given
\* capacity: the new entries, the returned position and the requests that
\* were told to move backward.
accept_request_unbounded(a, capacity, entry) ==
    LET index == bisect_right(a, entry)
        new   == list_insert(a, index, entry)
    IN  [ queue |-> new, ret |-> index + 1,
          moved |-> { new[i][2] : i \in (index + 2)..Len(new) } ]

accept_request_full_position(a, capacity, entry) ==
    IF Len(a) < capacity
    THEN accept_request_unbounded(a, capacity, entry)
    ELSE [ queue |-> a, ret |-> capacity, moved |-> {} ]

accept_request_evicting(a, capacity, entry) ==
    IF Len(a) < capacity
    THEN accept_request_unbounded(a, capacity, entry)
    ELSE [ queue |-> SubSeq(a, 1, Len(a) - 1) \o <<entry>>,
           ret |-> capacity, moved |-> {} ]

accept_request(a, capacity, entry) ==
    IF Len(a) < capacity
    THEN LET index == bisect_right(a, entry)
             new   == list_insert(a, index, entry)
         IN  [ queue |-> new, ret |-> index + 1,
               moved |-> { new[i][2] : i \in (index + 2)..Len(new) } ]
    ELSE [ queue |-> a, ret |-> capacity + 1, moved |-> {} ]

\* RequestQueue.send_request, the flag: set on an empty queue; otherwise the
\* popped request's move_to_server clears it.
send_request_bypass_when_emptied(cb, q, a) ==
    IF a = << >> \/ Len(a) = 1
    THEN [cb EXCEPT ![q] = TRUE]
    ELSE bypass_after_move(cb, paired_server(q))

send_request_bypass_unset(cb, q, a) ==
    IF a = << >> THEN cb ELSE bypass_after_move(cb, paired_server(q))

send_request_bypass_always(cb, q, a) == [cb EXCEPT ![q] = TRUE]

send_request_bypass(cb, q, a) ==
    IF a = << >>
    THEN [cb EXCEPT ![q] = TRUE]
    ELSE bypass_after_move(cb, paired_server(q))

\* RequestQueue.send_request, the entries: pop(0) unless empty.
send_request_queue_pop_last(a) ==
    IF a = << >> THEN a ELSE SubSeq(a, 1, Len(a) - 1)
send_request_queue(a) == IF a = << >> THEN a ELSE Tail(a)

\* RequestQueue.send_request, the request popped (None on an empty queue).
send_request_sent(a) == IF a = << >> THEN None ELSE Head(a)[2]

\* RequestQueue.send_request, the requests: the popped one starts moving to
\* the paired server, every remaining one moves forward one slot.
send_request_requests(reqs, q, a) ==
    [ i \in DOMAIN reqs |->
        IF i = send_request_sent(a) THEN move_to_server(reqs[i], paired_server(q))
        ELSE IF i \in EntryRequests(send_request_queue(a)) /\ a # << >>
             THEN move_forward(reqs[i])
        ELSE reqs[i] ]

\* -------------------------------------------------------------- Server
\* Request._check_on_reach_server: `server.current_request is None`.
server_idle_unchecked(cur) == TRUE
server_idle(cur) == cur = None

\* Server.accept_request
server_accept_request_if_idle(cur, r) ==
    IF r # None /\ cur = None THEN r ELSE cur
server_accept_request(cur, r) == IF r # None THEN r ELSE cur

\* Request._check_on_reach_queue: any(req is self for _, req in queue.queue)
is_in_queue_assumed(a, r) == TRUE
is_in_queue(a, r) == r \in EntryRequests(a)

\* Request._drop: the dropped signal is emitted, the movement stops.
drop_keeps_moving(req, blocking) ==
    [req EXCEPT !.dropped = @ + 1, !.blocking_obj = blocking]
drop_silent(req, blocking) ==
    [req EXCEPT !.blocking_obj = blocking, !.move_anim = "stopped"]
drop(req, blocking) ==
    [req EXCEPT !.dropped = @ + 1,
                !.blocking_obj = blocking,
                !.move_anim = "stopped"]

\* --------------------------------------------------------------- Client
\* Client._find_target_queue, first choice: the queues of the scene that can
\* be bypassed.  The code takes the first one in scene.items() order, an
\* order the repository does not fix: any of them may be the one.
BypassableQueues_none == {}
BypassableQueues_all == SceneQueues
BypassableQueues == { q \in SceneQueues : can_bypass[q] }

\* Client._find_target_queue, second choice: min(queues, key=len(q.queue)).
AnySceneQueue == SceneQueues
LeastBusyQueues ==
    { q \in SceneQueues :
        \A o \in SceneQueues : Len(queue[q]) <= Len(queue[o]) }

\* Client._find_server: the first Server item of the scene, None if there is
\* none; as for the queues, any server of the scene may be the first.
find_server_idle == { s \in SceneServers : current_request[s] = None }
find_server_first == {1}
find_server == SceneServers

\* Client._route_request, the branches `request.move_to_server(server)`:
\* directly when the scene has no queue, or bypassing a queue.
RouteToServer(r, p, s) ==
    /\ requests' = Append(requests, move_to_server(NewRequest(p), s))
    /\ can_bypass' = bypass_after_move(can_bypass, s)
    /\ UNCHANGED <<queue, current_request, topology>>

\* Client._route_request, branch `request.move_to_queue(target_queue)`.
RouteToQueue(r, p, q) ==
    LET res == accept_request(queue[q], queue_capacity, <<p, r>>)
    IN  /\ requests' =
             [ i \in 1..r |->
                 IF i = r THEN move_to_queue(NewRequest(p), q, res.ret)
                 ELSE IF i \in res.moved THEN move_backward(requests[i])
                 ELSE requests[i] ]
        /\ queue' = [queue EXCEPT ![q] = res.queue]
        /\ UNCHANGED <<can_bypass, current_request, topology>>

\* Client.send_request: _create_request, then _route_request.
send_request(p) ==
    /\ LET r == Len(requests) + 1
       IN  IF SceneQueues = {}
           THEN IF find_server = {}
                THEN /\ requests' = Append(requests, NewRequest(p))
                     /\ UNCHANGED <<queue, can_bypass, current_request, topology>>
                ELSE \E s \in find_server : RouteToServer(r, p, s)
           ELSE IF BypassableQueues # {}
                THEN \E q \in BypassableQueues :
                        RouteToServer(r, p, paired_server(q))
                ELSE \E q \in LeastBusyQueues : RouteToQueue(r, p, q)
    /\ sent_without_queue' =
          (sent_without_queue \/ (SceneQueues = {} /\ find_server # {}))

\* MainWindow's timers and buttons call send_request of the Normal and of
\* the High priority client; a run creates MaxRequests requests at most.
ClientSend(p) ==
    /\ Len(requests) < MaxRequests
    /\ send_request(p)

\* ---------------------------------------------- Request position checks
\* Request._check_position dispatches on the targets and the flags; a check
\* runs while the movement animation emits valueChanged.
Moving(r) == requests[r].move_anim = "running"

QueueCheckDue(r) ==
    requests[r].target_queue # None /\ ~requests[r].has_checked_queue

ServerCheckDue(r) ==
    /\ ~QueueCheckDue(r)
    /\ requests[r].target_server # None
    /\ ~requests[r].has_checked_server

EnterCheckDue(r) ==
    /\ ~QueueCheckDue(r)
    /\ requests[r].target_server # None
    /\ requests[r].has_checked_server
    /\ ~requests[r].has_entered_server

\* Request._check_on_reach_queue, at the check where the request's right edge
\* has passed the queue's left edge.
ReachQueue(r) ==
    /\ r \in 1..Len(requests)
    /\ Moving(r)
    /\ QueueCheckDue(r)
    /\ LET q == requests[r].target_queue
           checked == [requests[r] EXCEPT !.has_checked_queue = TRUE]
       IN  requests' = [requests EXCEPT ![r] =
                          IF is_in_queue(queue[q], r) THEN checked
                          ELSE drop(checked, "queue")]
    /\ UNCHANGED <<queue, can_bypass, current_request, topology>>
    /\ UNCHANGED sent_without_queue

\* Request._check_on_reach_server, at the check where the request's right
\* edge has passed the server's left edge.
ReachServer(r) ==
    /\ r \in 1..Len(requests)
    /\ Moving(r)
    /\ ServerCheckDue(r)
    /\ LET s == requests[r].target_server
           checked == [requests[r] EXCEPT !.has_checked_server = TRUE]
       IN  IF server_idle(current_request[s])
           THEN /\ current_request' =
                     [current_request EXCEPT ![s] = server_accept_request(@, r)]
                /\ requests' = [requests EXCEPT ![r] = checked]
           ELSE IF current_request[s] # None /\ current_request[s] # r
           THEN /\ requests' = [requests EXCEPT ![r] = drop(checked, "server")]
                /\ UNCHANGED current_request
           ELSE /\ requests' = [requests EXCEPT ![r] = checked]
                /\ UNCHANGED current_request
    /\ UNCHANGED <<queue, can_bypass, topology>>
    /\ UNCHANGED sent_without_queue

\* Request._check_on_enter_server and _start_processing, at the check where
\* the request's centre is on the server's centre.  That position is the end
\* value of the movement, so the animation emits no further check after it.
\* The handler sets _has_entered_center; _has_entered_server stays False.
EnterServer(r) ==
    /\ r \in 1..Len(requests)
    /\ Moving(r)
    /\ EnterCheckDue(r)
    /\ requests' = [requests EXCEPT ![r].has_entered_center = TRUE,
                                    ![r].processing = @ + 1,
                                    ![r].move_anim = "finished"]
    /\ UNCHANGED <<queue, can_bypass, current_request, topology>>
    /\ UNCHANGED sent_without_queue

\* Server.release_and_notify, the server's slot.
release(cur, s) == [cur EXCEPT ![s] = None]

\* Server.release_and_notify on server s whose paired_queue is pq (None when
\* the server was created without a queue): the slot is cleared and, if a
\* queue is paired, that queue runs send_request once.
release_and_notify_keeps(cur, qs, cb, reqs, s, pq) ==
    [ current_request |-> cur,
      queue       |-> [qs EXCEPT ![pq] = send_request_queue(qs[pq])],
      can_bypass  |-> send_request_bypass(cb, pq, qs[pq]),
      requests    |-> send_request_requests(reqs, pq, qs[pq]) ]

release_and_notify(cur, qs, cb, reqs, s, pq) ==
    IF pq = None
    THEN [ current_request |-> release(cur, s),
           queue |-> qs, can_bypass |-> cb, requests |-> reqs ]
    ELSE [ current_request |-> release(cur, s),
           queue       |-> [qs EXCEPT ![pq] = send_request_queue(qs[pq])],
           can_bypass  |-> send_request_bypass(cb, pq, qs[pq]),
           requests    |-> send_request_requests(reqs, pq, qs[pq]) ]

\* Request._on_processing_finished: the processing animation (started 100 ms
\* after _start_processing, 1000 ms long) has finished; the request leaves
\* the scene and its server runs release_and_notify, whose paired queue runs
\* send_request.
ProcessingFinished(r) ==
    /\ r \in 1..Len(requests)
    /\ requests[r].processing > requests[r].finished
    /\ LET s == requests[r].target_server
           done == [requests EXCEPT ![r].finished = @ + 1]
           res == release_and_notify(current_request, queue, can_bypass,
                                     done, s, paired_queue(s))
       IN  /\ current_request' = res.current_request
           /\ queue' = res.queue
           /\ can_bypass' = res.can_bypass
           /\ requests' = res.requests
    /\ UNCHANGED topology
    /\ UNCHANGED sent_without_queue

\* ----------------------------------------------------------------- View
\* View.add_queue: center, then top, then bottom (with their servers).
add_queue ==
    /\ queue_num < MaxQueueNum
    /\ queue_num' = queue_num + 1
    /\ UNCHANGED <<requests, queue, can_bypass, current_request,
                   server_center_in_scene>>
    /\ UNCHANGED sent_without_queue

\* View.remove_queue: the reverse order.
remove_queue ==
    /\ queue_num > 0
    /\ queue_num' = queue_num - 1
    /\ UNCHANGED <<requests, queue, can_bypass, current_request,
                   server_center_in_scene>>
    /\ UNCHANGED sent_without_queue

\* ------------------------------------------------------- specification
\* View.__init__: the rows are created, only the client and server_center
\* are in the scene; RequestQueue.__init__, Server.__init__.
Init ==
    /\ requests = << >>
    /\ queue = [l \in Lanes |-> << >>]
    /\ can_bypass = [l \in Lanes |-> TRUE]
    /\ current_request = [l \in Lanes |-> None]
    /\ queue_num = 0
    /\ server_center_in_scene = TRUE
    /\ sent_without_queue = FALSE

Next ==
    \/ \E p \in Priorities : ClientSend(p)
    \/ \E r \in RequestIds : ReachQueue(r)
    \/ \E r \in RequestIds : ReachServer(r)
    \/ \E r \in RequestIds : EnterServer(r)
    \/ \E r \in RequestIds : ProcessingFinished(r)
    \/ add_queue
    \/ remove_queue

Spec == Init /\ [][Next]_vars

\* A scene that is set up before the first request and left alone after:
\* the view's scene once add_queue was called some number of times, or a
\* scene that holds a Client only (Client._route_request looks the queues
\* and servers up in whatever scene it is in).
FixedInit ==
    /\ requests = << >>
    /\ queue = [l \in Lanes |-> << >>]
    /\ can_bypass = [l \in Lanes |-> TRUE]
    /\ current_request = [l \in Lanes |-> None]
    /\ \/ server_center_in_scene = TRUE /\ queue_num \in 0..MaxQueueNum
       \/ server_center_in_scene = FALSE /\ queue_num = 0
    /\ sent_without_queue = FALSE

FixedNext ==
    \/ \E p \in Priorities : ClientSend(p)
    \/ \E r \in RequestIds : ReachQueue(r)
    \/ \E r \in RequestIds : ReachServer(r)
    \/ \E r \in RequestIds : EnterServer(r)
    \/ \E r \in RequestIds : ProcessingFinished(r)

FixedSpec == FixedInit /\ [][FixedNext]_vars

\* A scene with queues under load: only the Normal client sends, and it
\* sends enough requests for every lane to be bypassed once, to be filled
\* and to refuse once.
MaxLoad == MaxQueueNum * (queue_capacity + 1) + 1

LoadInit ==
    /\ FixedInit
    /\ server_center_in_scene
    /\ queue_num \in 1..MaxQueueNum

ClientSendLoad ==
    /\ Len(requests) < MaxLoad
    /\ send_request(Normal)

LoadNext ==
    \/ ClientSendLoad
    \/ \E r \in 1..MaxLoad : ReachQueue(r)
    \/ \E r \in 1..MaxLoad : ReachServer(r)
    \/ \E r \in 1..MaxLoad : EnterServer(r)
    \/ \E r \in 1..MaxLoad : ProcessingFinished(r)

LoadSpec == LoadInit /\ [][LoadNext]_vars

\* Request._check_position called once more after the request's centre
\* reached the server's centre: _has_entered_server is still False (the
\* handler set _has_entered_center), so _check_on_enter_server runs again,
\* its position test holds again and _start_processing starts another
\* processing animation.
CheckPositionAgain(r) ==
    /\ r \in 1..Len(requests)
    /\ requests[r].move_anim = "finished"
    /\ EnterCheckDue(r)
    /\ requests[r].processing < MaxProcessing
    /\ requests' = [requests EXCEPT ![r].has_entered_center = TRUE,
                                    ![r].processing = @ + 1]
    /\ UNCHANGED <<queue, can_bypass, current_request, topology>>
    /\ UNCHANGED sent_without_queue

\* The view's scene after one add_queue, left as it is, with a movement
\* animation that may deliver the position check at the server's centre
\* more than once.
RecheckInit == FixedInit /\ queue_num = 1

RecheckNext ==
    \/ FixedNext
    \/ \E r \in RequestIds : CheckPositionAgain(r)

RecheckSpec == RecheckInit /\ [][RecheckNext]_vars

\* ------------------------------------------------------------- helpers
Created == 1..Len(requests)
Dropped(r) == requests[r].dropped > 0
Completed(r) == requests[r].finished > 0
Terminal(r) == Dropped(r) \/ Completed(r)
\* The admission decision move_to_queue took from accept_request's result.
RoutedToQueue(r) == requests[r].position > 0
Admitted(r) == RoutedToQueue(r) /\ requests[r].position <= queue_capacity
Refused(r) == requests[r].position > queue_capacity

TypeOK ==
    /\ Len(requests) <= MaxRequests
    /\ queue_num \in 0..MaxQueueNum
    /\ \A l \in Lanes : current_request[l] \in 0..MaxRequests
    /\ \A l \in Lanes : can_bypass[l] \in BOOLEAN
    /\ server_center_in_scene \in BOOLEAN
    /\ sent_without_queue \in BOOLEAN

\* The request a routing step created (Client.send_request appends one).
RoutingStep == Len(requests') = Len(requests) + 1
Routed == requests'[Len(requests')]
\* Entries of queue l as request ids / priorities.
EntryPriority(l, i) == queue[l][i][1]
EntryRequest(l, i) == queue[l][i][2]
\* Requests that a send_request popped from queue l and sent to the server.
DispatchedFrom(l) ==
    { r \in Created : requests[r].target_queue = l
                      /\ requests[r].target_server # None }

\* ===================================================================
\* C1  Capacity invariant: in every reachable state every queue holds at
\*     most `capacity` entries.
CapacityInvariant ==
    \A l \in Lanes : Len(queue[l]) <= queue_capacity

\* C1 witness: a queue is filled to its capacity again after one of its
\*     entries was dispatched.
CapacityWitness ==
    \E l \in Lanes : Len(queue[l]) = queue_capacity /\ DispatchedFrom(l) # {}

\* C2  Ordering invariant: in every reachable state a queue's entries are
\*     sorted by priority, every High entry in front of every Normal entry.
OrderingInvariant ==
    \A l \in Lanes : \A i, j \in 1..Len(queue[l]) :
        i < j => EntryPriority(l, i) <= EntryPriority(l, j)

\* C2 witness: a High request stands in front of a Normal request that was
\*     admitted before it.
OrderingWitness ==
    \E l \in Lanes : \E i, j \in 1..Len(queue[l]) :
        /\ i < j
        /\ EntryPriority(l, i) = High
        /\ EntryPriority(l, j) = Normal
        /\ EntryRequest(l, i) > EntryRequest(l, j)

\* C3  FIFO within a priority class: two requests of equal priority that
\*     are in the same queue stand in the order of their admission (a
\*     request is admitted in the routing call that creates it, so the
\*     creation order is the admission order).
FifoWithinPriority ==
    \A l \in Lanes : \A i, j \in 1..Len(queue[l]) :
        (i < j /\ EntryPriority(l, i) = EntryPriority(l, j))
            => EntryRequest(l, i) < EntryRequest(l, j)

\* C3 witness: two requests of equal priority wait in one queue from which
\*     an earlier entry has been dispatched.
FifoWitness ==
    \E l \in Lanes :
        /\ Len(queue[l]) >= 2
        /\ EntryPriority(l, 1) = EntryPriority(l, 2)
        /\ DispatchedFrom(l) # {}

\* C4  Refusal when full: a routing step whose accept_request runs on a
\*     queue that holds `capacity` entries returns capacity + 1, leaves the
\*     entries as they were and notifies no request.
RefusalWhenFull ==
    [][ \A q \in Lanes :
          (RoutingStep /\ Routed.target_queue = q
             /\ Len(queue[q]) = queue_capacity)
          => /\ Routed.position = queue_capacity + 1
             /\ queue' = queue
             /\ \A i \in Created : requests'[i] = requests[i] ]_vars

\* C4 witness: a High request was refused by a queue that is full.
RefusalWitness ==
    \E r \in Created :
        /\ Refused(r)
        /\ requests[r].priority = High
        /\ Len(queue[requests[r].target_queue]) = queue_capacity
        /\ ~requests[r].has_checked_queue

\* C5  Server exclusivity: current_request is assigned a request only in a
\*     step before which it was unset.
ServerExclusivity ==
    [][ \A s \in Lanes :
          (current_request'[s] # current_request[s]
             /\ current_request'[s] # None)
          => current_request[s] = None ]_vars

\* C5 witness: a request arrived at a busy server and was dropped there,
\*     the server still holding the other request.
ServerExclusivityWitness ==
    \E r \in Created :
        /\ requests[r].blocking_obj = "server"
        /\ current_request[requests[r].target_server] \notin {None, r}

\* C6  Eager admission is honoured: a request that accept_request admitted
\*     at routing time (position <= capacity) is never dropped at its
\*     queue-boundary check.
EagerAdmissionHonoured ==
    \A r \in Created : Admitted(r) => requests[r].blocking_obj # "queue"

\* C7  Eager refusal is final: a request refused at routing time is in no
\*     queue's entries and is never sent to a server; it is not dropped
\*     before its queue-boundary check and is dropped, once, by the queue at
\*     that check.
EagerRefusalFinal ==
    \A r \in Created :
        Refused(r) =>
            /\ \A l \in Lanes : r \notin EntryRequests(queue[l])
            /\ requests[r].target_server = None
            /\ Dropped(r) <=> requests[r].has_checked_queue
            /\ Dropped(r) => /\ requests[r].dropped = 1
                             /\ requests[r].blocking_obj = "queue"

\* C7 witness: a refused request has been dropped at the boundary of a
\*     queue that has a free slot by then.
EagerRefusalWitness ==
    \E r \in Created :
        /\ Refused(r)
        /\ Dropped(r)
        /\ Len(queue[requests[r].target_queue]) < queue_capacity

\* C9  (as claimed) Bypass reset law: right after a send_request that
\*     removes the last entry of a queue, the queue's can_bypass is true.
BypassResetOnEmptying ==
    [][ \A q \in Lanes :
          (Len(queue[q]) = 1 /\ queue'[q] = << >>) => can_bypass'[q] ]_vars

\* C9  (amended) A send_request that removes the last entry leaves
\*     can_bypass false; can_bypass turns true only in a send_request that
\*     found the queue already empty.
BypassResetLaw ==
    [][ \A q \in Lanes :
          /\ (Len(queue[q]) = 1 /\ queue'[q] = << >>) => ~can_bypass'[q]
          /\ (~can_bypass[q] /\ can_bypass'[q])
               => /\ queue[q] = << >> /\ queue'[q] = << >>
                  /\ current_request'[paired_server(q)] = None
                  /\ \E r \in Created :
                        /\ requests[r].target_server = paired_server(q)
                        /\ requests'[r].finished = requests[r].finished + 1
      ]_vars

\* C9 witness: the last entry of a queue has been dispatched and is on its
\*     way to the server; the queue is empty and cannot be bypassed.
BypassResetWitness ==
    \E q \in Lanes : \E r \in DispatchedFrom(q) :
        /\ queue[q] = << >>
        /\ ~can_bypass[q]
        /\ ~requests[r].has_checked_server
        /\ ~Dropped(r)

\* C10 Bypass consumes the flag: a routing step that bypasses queue Q (the
\*     scene has queues, Q.can_bypass was true, the request is sent to Q's
\*     paired server) leaves Q.can_bypass false, and no routing step sets a
\*     queue's can_bypass again: only a step that finds Q empty does.
BypassConsumesFlag ==
    [][ \A q \in Lanes :
          /\ (RoutingStep /\ queue_num > 0 /\ can_bypass[q]
                /\ Routed.target_queue = None
                /\ Routed.target_server = paired_server(q))
             => ~can_bypass'[q]
          /\ (~can_bypass[q] /\ can_bypass'[q])
             => (~RoutingStep /\ queue[q] = << >>) ]_vars

\* C10 witness: a request that bypassed the queue of a row other than the
\*      centre one is on its way to that row's server.
BypassConsumesWitness ==
    \E r \in Created :
        /\ requests[r].target_queue = None
        /\ requests[r].target_server > 1
        /\ ~requests[r].has_checked_server
        /\ ~can_bypass[paired_queue(requests[r].target_server)]

\* Fair firing of the Motion boundary events and of the processing timers:
\* a running animation keeps emitting position checks until its end value,
\* and a started processing animation finishes.  Clients and the view are
\* under no obligation to act.
Fairness ==
    \A r \in RequestIds :
        /\ WF_vars(ReachQueue(r))
        /\ WF_vars(ReachServer(r))
        /\ WF_vars(EnterServer(r))
        /\ WF_vars(ProcessingFinished(r))

FairSpec == Init /\ [][Next]_vars /\ Fairness

\* A request that Client._route_request gave a target.
RoutedRequest(r) ==
    /\ r \in Created
    /\ requests[r].target_queue # None \/ requests[r].target_server # None

\* C8  Lifecycle liveness: under fair firing of the boundary events and the
\*     processing timers, every routed request eventually reaches a
\*     terminal state (Completed or Dropped).
LifecycleLiveness ==
    \A r \in RequestIds : RoutedRequest(r) ~> (r \in Created /\ Terminal(r))

\* The step in which request r's processing finished: its server runs
\* release_and_notify.
ReleaseStep(r) ==
    r \in Created /\ requests'[r].finished = requests[r].finished + 1
\* The requests among the existing ones that a step sent towards a server.
SentToServer ==
    { i \in Created : requests[i].target_server = None
                      /\ requests'[i].target_server # None }

\* C11 Dispatch takes the front: a send_request on a non-empty queue removes
\*     exactly the front entry, sends exactly that request towards the
\*     paired server and leaves the remaining entries in their order.
DispatchTakesFront ==
    [][ \A r \in Created :
          LET q == paired_queue(requests[r].target_server)
          IN  (ReleaseStep(r) /\ queue[q] # << >>)
              => /\ queue'[q] = Tail(queue[q])
                 /\ SentToServer = { Head(queue[q])[2] }
                 /\ requests'[Head(queue[q])[2]].target_server
                       = paired_server(q) ]_vars

\* C11 witness: the front entry (High) is on its way to the server and the
\*     Normal entry that stood behind it is still in the queue.
DispatchTakesFrontWitness ==
    \E q \in Lanes : \E r \in DispatchedFrom(q) :
        /\ requests[r].priority = High
        /\ ~requests[r].has_checked_server
        /\ ~Dropped(r)
        /\ queue[q] # << >>
        /\ EntryPriority(q, 1) = Normal
        /\ EntryRequest(q, 1) < r

\* C12 Dispatch on an empty queue: a send_request on an empty queue sends
\*     no request, leaves the entries empty and sets can_bypass, whatever
\*     its value was.
DispatchOnEmpty ==
    [][ \A r \in Created :
          LET q == paired_queue(requests[r].target_server)
          IN  (ReleaseStep(r) /\ queue[q] = << >>)
              => /\ queue' = queue
                 /\ SentToServer = {}
                 /\ can_bypass' = [can_bypass EXCEPT ![q] = TRUE] ]_vars

\* C12 witness: a server was released while its empty queue could not be
\*     bypassed, and the queue can be bypassed now.
DispatchOnEmptyWitness ==
    \E r \in Created :
        LET q == paired_queue(requests[r].target_server)
        IN  /\ Completed(r)
            /\ queue[q] = << >>
            /\ can_bypass[q]
            /\ DispatchedFrom(q) = {}
            /\ \A o \in Created \ {r} : requests[o].target_server # paired_server(q)

\* C13 Bypass outranks least-busy: when some queue of the scene has
\*     can_bypass true, routing sends the request to the paired server of
\*     such a queue and runs accept_request on no queue.
BypassOutranksLeastBusy ==
    [][ (RoutingStep /\ \E q \in SceneQueues : can_bypass[q])
          => /\ Routed.target_queue = None
             /\ Routed.position = 0
             /\ \E q \in SceneQueues :
                   /\ can_bypass[q]
                   /\ Routed.target_server = paired_server(q)
             /\ queue' = queue ]_vars

\* C13 witness: the last request bypassed a queue while another queue of
\*     the scene is empty and cannot be bypassed.
BypassOutranksWitness ==
    /\ requests # << >>
    /\ LET r == Len(requests)
           s == requests[r].target_server
       IN  /\ requests[r].target_queue = None
           /\ s \in SceneQueues
           /\ ~requests[r].has_checked_server
           /\ \E o \in SceneQueues \ {paired_queue(s)} :
                 /\ queue[o] = << >>
                 /\ ~can_bypass[o]
                 /\ \E i \in Created : /\ requests[i].target_server = paired_server(o)
                                       /\ ~Terminal(i)

\* C14 Least-busy routing: when the scene has queues and none can be
\*     bypassed, routing targets a queue whose number of entries is minimal
\*     over the scene's queues, targets no server, and runs accept_request
\*     on that queue in the same step (admitted at the returned position, or
\*     refused with position capacity + 1).
LeastBusyRouting ==
    [][ (RoutingStep /\ SceneQueues # {}
           /\ \A o \in SceneQueues : ~can_bypass[o])
          => LET q == Routed.target_queue
                 r == Len(requests')
             IN  /\ q \in SceneQueues
                 /\ \A o \in SceneQueues : Len(queue[q]) <= Len(queue[o])
                 /\ Routed.target_server = None
                 /\ \A o \in Lanes \ {q} : queue'[o] = queue[o]
                 /\ IF Len(queue[q]) < queue_capacity
                    THEN /\ Len(queue'[q]) = Len(queue[q]) + 1
                         /\ Routed.position \in 1..Len(queue'[q])
                         /\ queue'[q][Routed.position]
                               = <<Routed.priority, r>>
                    ELSE /\ queue'[q] = queue[q]
                         /\ Routed.position = queue_capacity + 1 ]_vars

\* C14 witness: the last request was admitted as the only entry of a queue
\*     that cannot be bypassed, while another queue of the scene already
\*     held an entry.
LeastBusyWitness ==
    /\ requests # << >>
    /\ LET r == Len(requests)
           q == requests[r].target_queue
       IN  /\ q \in SceneQueues
           /\ ~requests[r].has_checked_queue
           /\ queue[q] = << <<requests[r].priority, r>> >>
           /\ \E o \in SceneQueues \ {q} :
                 /\ queue[o] # << >>
                 /\ ~can_bypass[o]
                 /\ ~can_bypass[q]

\* C15 Direct routing without queues: when the scene has no queue but has a
\*     server, routing sends the request to a server of the scene, busy or
\*     not, and no queue's entries change.
DirectRouting ==
    [][ (RoutingStep /\ queue_num = 0 /\ SceneServers # {})
          => /\ Routed.target_server \in SceneServers
             /\ Routed.target_queue = None
             /\ Routed.position = 0
             /\ queue' = queue ]_vars

\* C15 witness: with no queue in the scene, the last request travels to a
\*     server that is processing another request.
DirectRoutingWitness ==
    /\ requests # << >>
    /\ queue_num = 0
    /\ LET r == Len(requests)
           s == requests[r].target_server
       IN  /\ s \in SceneServers
           /\ requests[r].target_queue = None
           /\ ~requests[r].has_checked_server
           /\ current_request[s] \notin {None, r}
           /\ \A o \in Created \ {r} : requests[o].has_checked_server

\* The step in which request r's server-boundary check ran.
ServerArrivalStep(r) ==
    /\ r \in Created
    /\ ~requests[r].has_checked_server
    /\ requests'[r].has_checked_server

\* C16 Server arrival outcome: at a request's server-boundary check an idle
\*     server takes the request as its current_request; a server occupied
\*     by another request keeps its current_request and the arriving
\*     request is dropped; a dropped request never starts processing and
\*     never triggers a release.
ServerArrivalOutcome ==
    [][ \A r \in Created :
          LET s == requests[r].target_server
          IN  /\ (ServerArrivalStep(r) /\ current_request[s] = None)
                 => /\ current_request' = [current_request EXCEPT ![s] = r]
                    /\ requests'[r].dropped = 0
              /\ (ServerArrivalStep(r) /\ current_request[s] \notin {None, r})
                 => /\ current_request' = current_request
                    /\ requests'[r].dropped = 1
                    /\ requests'[r].blocking_obj = "server"
              /\ Dropped(r)
                 => /\ requests'[r].processing = requests[r].processing
                    /\ requests'[r].finished = requests[r].finished
                    /\ ~ReleaseStep(r) ]_vars

\* C16 witness: a request was dropped at a server that had taken another
\*     request when idle; the other request has since been processed and
\*     released the server.
ServerArrivalWitness ==
    \E r \in Created : \E o \in Created \ {r} :
        /\ requests[r].blocking_obj = "server"
        /\ Dropped(r)
        /\ requests[o].target_server = requests[r].target_server
        /\ requests[o].has_checked_server
        /\ Completed(o)
        /\ requests[r].processing = 0

\* C17 Release contract: release_and_notify leaves the server's
\*     current_request unset; with a paired queue it runs that queue's
\*     send_request once (one entry less, or the empty queue made
\*     bypassable) and touches no other queue; with no paired queue it does
\*     nothing else.
ReleaseContract ==
    [][ \A r \in Created :
          ReleaseStep(r)
          => LET s == requests[r].target_server
                 q == paired_queue(s)
                 alone == release_and_notify(current_request, queue,
                                             can_bypass, requests, s, None)
             IN  /\ current_request' = [current_request EXCEPT ![s] = None]
                 /\ \A o \in Lanes \ {q} : queue'[o] = queue[o]
                 /\ IF queue[q] = << >>
                    THEN queue'[q] = << >> /\ can_bypass'[q]
                    ELSE Len(queue'[q]) = Len(queue[q]) - 1
                 /\ Cardinality(SentToServer) = Len(queue[q]) - Len(queue'[q])
                 /\ alone.current_request
                       = [current_request EXCEPT ![s] = None]
                 /\ alone.queue = queue
                 /\ alone.can_bypass = can_bypass
                 /\ alone.requests = requests ]_vars

\* C17 witness: a server was released, its queue gave it one request, and
\*     the server is unset while its queue still holds an entry.
ReleaseContractWitness ==
    \E s \in Lanes :
        /\ current_request[s] = None
        /\ queue[paired_queue(s)] # << >>
        /\ Cardinality({ r \in Created : /\ requests[r].target_server = s
                                          /\ Completed(r) }) >= 1
        /\ Cardinality(DispatchedFrom(paired_queue(s))) >= 1
        /\ \A r \in DispatchedFrom(paired_queue(s)) :
              ~requests[r].has_checked_server /\ ~Dropped(r)

\* C18 Release is the sole dispatch path: an entry leaves a queue only in
\*     the send_request of a release of the paired server; no routing step,
\*     accept_request or boundary check removes an entry.
ReleaseSoleDispatch ==
    [][ \A q \in Lanes :
          (\E i \in 1..Len(queue[q]) :
              \A j \in 1..Len(queue'[q]) : queue'[q][j] # queue[q][i])
          => \E r \in Created :
                /\ ReleaseStep(r)
                /\ requests[r].target_server = paired_server(q)
                /\ current_request[paired_server(q)] = r
                /\ current_request'[paired_server(q)] = None ]_vars

\* C18 witness: a queue refused a request when full, and an entry it held
\*     has left it since, after the paired server's release.
ReleaseSoleDispatchWitness ==
    \E q \in Lanes :
        /\ Len(queue[q]) = queue_capacity - 1
        /\ DispatchedFrom(q) # {}
        /\ \E c \in Created : /\ requests[c].target_server = paired_server(q)
                              /\ Completed(c)
                              /\ c \notin DispatchedFrom(q)
        /\ \E e \in Created : requests[e].target_queue = q /\ Refused(e)

\* C19 Terminal notifications are exact: a request emits `dropped` at most
\*     once, exactly when _drop ran on it; no request is both dropped and
\*     completed; once dropped, a request changes no more, and every later
\*     change of a queue or a server comes from a routing step or from a
\*     request that is not dropped.
TerminalNotificationsExact ==
    /\ [](\A r \in Created :
            /\ requests[r].dropped <= 1
            /\ Dropped(r) <=> requests[r].blocking_obj # "none"
            /\ Dropped(r) <=> requests[r].move_anim = "stopped"
            /\ ~(Dropped(r) /\ Completed(r)))
    /\ [][ /\ \A r \in Created : Dropped(r) => requests'[r] = requests[r]
           /\ (<<queue, can_bypass, current_request>>'
                  # <<queue, can_bypass, current_request>>)
              => \/ RoutingStep
                 \/ \E r \in Created :
                       /\ ~Dropped(r)
                       /\ ServerArrivalStep(r) \/ ReleaseStep(r) ]_vars

\* C19 witness: one request was dropped at a queue, one at a server, one
\*     was completed, and the server has taken a request after the drops.
TerminalNotificationsWitness ==
    \E a \in Created : \E b \in Created : \E c \in Created :
        /\ Dropped(a) /\ requests[a].blocking_obj = "queue"
        /\ Dropped(b) /\ requests[b].blocking_obj = "server"
        /\ Completed(c)
        /\ \E s \in Lanes : current_request[s] \notin {None, a, b, c}

\* C20 Admission position: accept_request on a queue that is not full
\*     inserts the request and returns its 1-based index, which is 1 plus
\*     the number of entries already present whose priority value is at
\*     most the new request's.
AdmissionPosition ==
    [][ \A q \in Lanes :
          (RoutingStep /\ Routed.target_queue = q
             /\ Len(queue[q]) < queue_capacity)
          => LET r == Len(requests')
                 before == { i \in 1..Len(queue[q]) :
                               queue[q][i][1] <= Routed.priority }
             IN  /\ Routed.position = 1 + Cardinality(before)
                 /\ Len(queue'[q]) = Len(queue[q]) + 1
                 /\ queue'[q][Routed.position] = <<Routed.priority, r>> ]_vars

\* C20 witness: the last request was admitted at index 2, behind an entry
\*     of its own priority.
AdmissionPositionWitness ==
    /\ requests # << >>
    /\ LET r == Len(requests)
           q == requests[r].target_queue
       IN  /\ q # None
           /\ ~requests[r].has_checked_queue
           /\ requests[r].position = 2
           /\ Len(queue[q]) = 2
           /\ queue[q][2] = <<requests[r].priority, r>>
           /\ queue[q][1][1] = requests[r].priority

\* C21 A dispatch that leaves the queue non-empty does not change
\*     can_bypass: after send_request on a queue with two or more entries
\*     the flag has the value it had before, false.
DispatchKeepsBypass ==
    [][ \A r \in Created :
          LET q == paired_queue(requests[r].target_server)
          IN  (ReleaseStep(r) /\ Len(queue[q]) >= 2)
              => /\ can_bypass'[q] = can_bypass[q]
                 /\ can_bypass'[q] = FALSE ]_vars

\* C21 witness: a queue dispatched its front entry, the entry behind it
\*     moved up to the front slot, and the queue cannot be bypassed.
DispatchKeepsBypassWitness ==
    \E q \in Lanes : \E r \in DispatchedFrom(q) :
        /\ ~requests[r].has_checked_server
        /\ ~Dropped(r)
        /\ Len(queue[q]) = 1
        /\ requests[EntryRequest(q, 1)].position = 2
        /\ requests[EntryRequest(q, 1)].end_x_in_queue = 1
        /\ ~can_bypass[q]

\* C22 Single target: from the moment a request is routed until it is
\*     terminal, exactly one of target_queue and target_server is set,
\*     also after the request was dispatched from a queue to the server.
SingleTarget ==
    \A r \in Created :
        (RoutedRequest(r) /\ ~Terminal(r))
        => (requests[r].target_queue # None) # (requests[r].target_server # None)

\* C23 Empty topology: when the scene holds neither a queue nor a server,
\*     routing gives the request no target, changes no queue or server,
\*     emits no `dropped`, and the request stays as it is for good: it is
\*     never processed, completed or dropped.
EmptyTopology ==
    [][ /\ (RoutingStep /\ SceneQueues = {} /\ SceneServers = {})
           => /\ Routed.target_queue = None
              /\ Routed.target_server = None
              /\ Routed.move_anim = "none"
              /\ Routed.dropped = 0
              /\ UNCHANGED <<queue, can_bypass, current_request>>
        /\ \A r \in Created :
              ~RoutedRequest(r)
              => /\ requests'[r] = requests[r]
                 /\ ~Terminal(r)
                 /\ requests[r].processing = 0 ]_vars

\* C23 witness: in a scene without queues and servers the client has sent
\*     all its requests, and High and Normal ones alike have no target.
EmptyTopologyWitness ==
    /\ SceneQueues = {}
    /\ SceneServers = {}
    /\ Len(requests) = MaxRequests
    /\ \A r \in Created : ~RoutedRequest(r) /\ ~Terminal(r)
    /\ \E r \in Created : requests[r].priority = High
    /\ \E r \in Created : requests[r].priority = Normal

\* C24 One release per completion: a request that enters the server starts
\*     processing once and runs release_and_notify once, while it is the
\*     server's current_request; a position check repeated after the
\*     request reached the server's centre starts no second processing.
OneReleasePerCompletion ==
    /\ [](\A r \in Created : /\ requests[r].processing <= 1
                             /\ requests[r].finished <= 1)
    /\ [][ \A r \in Created :
             ReleaseStep(r)
             => current_request[requests[r].target_server] = r ]_vars

\* Requests travelling to server s or being served by it.
BoundFor(s) ==
    { r \in Created : requests[r].target_server = s /\ ~Terminal(r) }

\* C25 No stuck lane: in a fixed scene, a queue of the scene (paired with
\*     its server) that cannot be bypassed has some request travelling to,
\*     or being served by, the paired server.
NoStuckLane ==
    \A q \in SceneQueues :
        ~can_bypass[q] => BoundFor(paired_server(q)) # {}

\* C26 No server race with queues: in a fixed scene that holds at least
\*     one queue (every queue and server paired), at most one request at a
\*     time is travelling to or being served by a given server, and no
\*     request is dropped at a server: drops happen at queues only.
NoServerRace ==
    SceneQueues # {}
    => /\ \A s \in Lanes : Cardinality(BoundFor(s)) <= 1
       /\ \A r \in Created : requests[r].blocking_obj # "server"
       /\ \A r \in Created : Dropped(r) => requests[r].blocking_obj = "queue"

\* C26 witness: with a queue in the scene all requests were sent; one was
\*     completed, one dispatched by the queue is being served by the same
\*     server, one was refused by the queue and dropped there.
NoServerRaceWitness ==
    /\ SceneQueues # {}
    /\ Len(requests) = MaxRequests
    /\ \E q \in SceneQueues : \E r \in DispatchedFrom(q) :
          /\ current_request[paired_server(q)] = r
          /\ \E c \in Created : /\ requests[c].target_server = paired_server(q)
                                /\ Completed(c)
          /\ \E d \in Created : /\ requests[d].target_queue = q
                                /\ Refused(d) /\ Dropped(d)

\* C27 Bypass implies empty: a queue whose can_bypass is true has no
\*     entries; a queue with entries cannot be bypassed.
BypassImpliesEmpty ==
    \A q \in Lanes : can_bypass[q] => queue[q] = << >>

\* C27 witness: one queue of the scene is full and cannot be bypassed,
\*     another is empty and was set bypassable by a release of its server.
BypassImpliesEmptyWitness ==
    \E q \in SceneQueues : \E o \in SceneQueues \ {q} :
        /\ Len(queue[q]) = queue_capacity
        /\ ~can_bypass[q]
        /\ can_bypass[o]
        /\ queue[o] = << >>
        /\ \E c \in Created : /\ requests[c].target_server = paired_server(o)
                              /\ Completed(c)

\* The step in which routing bypassed a queue of the scene.
BypassStep ==
    RoutingStep /\ SceneQueues # {} /\ Routed.target_server # None

\* C28 Bypass finds a free server, as claimed for any sequence of sends,
\*     completions and topology changes: whenever routing bypasses a queue
\*     the paired server is idle and no other request is bound for it.
BypassFindsFreeServerAlways ==
    [][ BypassStep
          => /\ current_request[Routed.target_server] = None
             /\ BoundFor(Routed.target_server) = {} ]_vars

\* C28 as amended: the same, and no bypassing request is ever dropped, for
\*     any sequence of sends, completions and topology changes in which
\*     every request is sent while the scene holds a queue.
BypassFindsFreeServer ==
    /\ [](~sent_without_queue
          => \A r \in Created :
                (requests[r].target_queue = None /\ RoutedRequest(r))
                => ~Dropped(r))
    /\ [][ (BypassStep /\ ~sent_without_queue)
             => /\ current_request[Routed.target_server] = None
                /\ BoundFor(Routed.target_server) = {}
                /\ can_bypass[paired_queue(Routed.target_server)] ]_vars

\* C28 witness: the last request bypassed the one queue of the scene after
\*     an earlier request was completed by its server, while a request is
\*     still bound for the server of a lane that was removed since.
BypassFindsFreeServerWitness ==
    /\ requests # << >>
    /\ ~sent_without_queue
    /\ queue_num = 1
    /\ LET r == Len(requests)
           s == requests[r].target_server
       IN  /\ requests[r].target_queue = None
           /\ s = paired_server(1)
           /\ ~requests[r].has_checked_server
           /\ \E c \in Created : requests[c].target_server = s /\ Completed(c)
           /\ \E o \in Lanes \ {s} : BoundFor(o) # {}

\* Entry i of queue q is in the queue before the step and not after it.
Leaves(q, i) ==
    /\ i \in 1..Len(queue[q])
    /\ \A j \in 1..Len(queue'[q]) : queue'[q][j] # queue[q][i]
\* Entry x goes before entry y: higher priority (the smaller value), or the
\* same priority and admitted earlier (requests are numbered as created).
GoesBefore(x, y) == x[1] < y[1] \/ (x[1] = y[1] /\ x[2] < y[2])

\* C29 Dispatch order: of two requests in the same queue the one with the
\*     higher priority, or with the same priority and the earlier
\*     admission, is dispatched to the server first; no Normal request is
\*     dispatched while a High one is in the queue.
DispatchOrder ==
    [][ \A q \in Lanes : \A i \in 1..Len(queue[q]) :
          Leaves(q, i)
          => /\ requests'[queue[q][i][2]].target_server = paired_server(q)
             /\ \A j \in 1..Len(queue[q]) :
                   j # i => GoesBefore(queue[q][i], queue[q][j]) ]_vars

\* C29 witness: of two requests of one priority queued together, the one
\*     admitted first has reached the server, the other is still queued.
DispatchOrderWitness ==
    \E q \in Lanes : \E r \in DispatchedFrom(q) :
        /\ requests[r].has_checked_server
        /\ current_request[paired_server(q)] = r
        /\ queue[q] # << >>
        /\ EntryPriority(q, 1) = requests[r].priority
        /\ EntryRequest(q, 1) > r
        /\ requests[EntryRequest(q, 1)].position = 2

\* C30 Slot tracking matches the queue: the slot number of every request
\*     in a queue (its admission position, minus one per move_forward, plus
\*     one per move_backward) is its 1-based index in the entries; an
\*     accept moves exactly the entries behind the insertion point back by
\*     one, a dispatch moves exactly the remaining entries forward by one.
SlotTracking ==
    /\ [](\A q \in Lanes : \A i \in 1..Len(queue[q]) :
            requests[EntryRequest(q, i)].end_x_in_queue = i)
    /\ [][ \A q \in Lanes : \A i \in 1..Len(queue[q]) :
             LET e == EntryRequest(q, i)
                 shift == requests'[e].end_x_in_queue
                             - requests[e].end_x_in_queue
             IN  /\ (RoutingStep /\ Routed.target_queue = q)
                    => shift = (IF Routed.position <= i THEN 1 ELSE 0)
                 /\ (\E r \in Created :
                        ReleaseStep(r) /\ requests[r].target_server = paired_server(q))
                    => shift = (IF i = 1 THEN 0 ELSE -1)
                 /\ shift # 0 => requests'[e].move_anim = "running" ]_vars

\* C30 witness: a High request was admitted in front of a Normal one, which
\*     moved back to slot 2; after the dispatch of the High request it is
\*     back in slot 1, its admission position.
SlotTrackingWitness ==
    \E q \in Lanes : \E r \in DispatchedFrom(q) :
        /\ requests[r].priority = High
        /\ requests[r].position = 1
        /\ Len(queue[q]) = 1
        /\ LET e == EntryRequest(q, 1)
           IN  /\ e < r
               /\ requests[e].priority = Normal
               /\ requests[e].position = 1
               /\ requests[e].end_x_in_queue = 1
               /\ requests[e].has_checked_queue

\* C31 Refusal only when all queues are full: a request that routing sends
\*     to a queue (no queue can be bypassed) is refused, accept_request
\*     returning capacity + 1, only if every queue of the scene is full at
\*     that moment.
RefusalOnlyWhenAllFull ==
    [][ (RoutingStep /\ Routed.target_queue # None
           /\ Routed.position = queue_capacity + 1)
          => /\ \A q \in SceneQueues : Len(queue[q]) = queue_capacity
             /\ \A q \in SceneQueues : ~can_bypass[q]
             /\ queue' = queue ]_vars

\* C31 witness: with every lane of the view in the scene, the last request
\*     was refused while each queue holds `capacity` entries; it is on its
\*     way to the queue that refused it.
RefusalOnlyWhenAllFullWitness ==
    /\ requests # << >>
    /\ queue_num = MaxQueueNum
    /\ queue_num >= 2
    /\ LET r == Len(requests)
       IN  /\ requests[r].target_queue \in SceneQueues
           /\ requests[r].position = queue_capacity + 1
           /\ ~requests[r].has_checked_queue
           /\ ~Dropped(r)
    /\ \A q \in SceneQueues : Len(queue[q]) = queue_capacity

\* C32 Server.accept_request enforces no exclusivity itself: called with a
\*     request it sets current_request to that request, whatever the server
\*     holds, also another request; at a server-boundary check the server's
\*     current_request changes only if it was unset, because the caller,
\*     _check_on_reach_server, calls accept_request only then.
AcceptUnconditional ==
    [][ \A r \in Created :
          ServerArrivalStep(r)
          => LET s == requests[r].target_server
             IN  /\ server_accept_request(current_request[s], r) = r
                 /\ \A o \in Created :
                       server_accept_request(o, r) = r
                 /\ current_request'[s] =
                       IF current_request[s] = None
                       THEN r ELSE current_request[s] ]_vars

\* C32 witness: a request has passed its server-boundary check at a server
\*     that holds another request; accept_request was not called for it, the
\*     server still holds the other request, which has started processing.
AcceptUnconditionalWitness ==
    \E r \in Created :
        LET s == requests[r].target_server
        IN  /\ s \in SceneServers
            /\ requests[r].has_checked_server
            /\ current_request[s] \in Created \ {r}
            /\ requests[current_request[s]].processing = 1
            /\ server_accept_request(current_request[s], r) = r
            /\ Dropped(r)

\* C33 Unique residence: in every reachable state a request appears at most
\*     once in the entries of all queues taken together, and a request that
\*     is a server's current_request is in no queue's entries.
UniqueResidence ==
    /\ \A q1 \in Lanes : \A q2 \in Lanes :
          \A i \in 1..Len(queue[q1]) : \A j \in 1..Len(queue[q2]) :
             queue[q1][i][2] = queue[q2][j][2] => (q1 = q2 /\ i = j)
    /\ \A s \in Lanes :
          current_request[s] # None
          => \A q \in Lanes : current_request[s] \notin EntryRequests(queue[q])

\* C33 witness: a server holds a request that its queue dispatched to it
\*     while that queue still holds another request.
UniqueResidenceWitness ==
    \E s \in SceneServers :
        /\ paired_queue(s) \in SceneQueues
        /\ current_request[s] \in DispatchedFrom(paired_queue(s))
        /\ queue[paired_queue(s)] # << >>
        /\ \A q \in Lanes : current_request[s] \notin EntryRequests(queue[q])

====
